---- MODULE Spec2Model ----
(***************************************************************************)
(* Model of backend/dbTests.js of flick-finder: the MySQL schema the        *)
(* script provisions (users, movies, user_movies, user_moods,              *)
(* deletion_logs, the after_movie_delete trigger), the script itself       *)
(* (setupTestDatabase, testAPI, runTests) and the clients of the store.    *)
(*                                                                         *)
(* Every SQL statement is one atomic step (InnoDB, autocommit): the rows   *)
(* a statement deletes by cascade and the rows its trigger inserts become  *)
(* visible together with the statement.  The statements of one             *)
(* multi-statement query are separate steps: other clients may act between *)
(* them.                                                                   *)
(***************************************************************************)
EXTENDS Integers, Sequences, FiniteSets, Bags, TLC

VARIABLES
    server,     \* configuration of the MySQL server the script connects to
    db,         \* the server's content: schema objects and table rows
    pc,         \* position of the script
    conn,       \* `connection` of setupTestDatabase: its state ("none" while
                \* undefined, "open", "closed") and the calls of end() on it
    run,        \* number of script invocations so far (stands for Date.now())
    ret,        \* value returned by setupTestDatabase in this run
    t,          \* locals and console verdicts of testAPI
    issued,     \* HTTP requests issued by testAPI in this run, in order
    inflight,   \* HTTP requests issued and not yet answered
    budget,     \* operations other clients may still perform
    hist        \* history: the rows removed from user_movies so far; the store
                \* when setupTestDatabase was called (while it runs); whether
                \* the store is as the last successful provisioning left it,
                \* now (fresh) and when setupTestDatabase was called (twice);
                \* the requests served to add a movie that was in the list

vars == <<server, db, pc, conn, run, ret, t, issued, inflight, budget, hist>>

(***************************************************************************)
(* Bounds of the model.                                                    *)
(***************************************************************************)
MaxRuns == 2
MaxClientOps == 1

(***************************************************************************)
(* Strings that the server compares are tuples of characters.              *)
(***************************************************************************)
TestUserPattern == <<"t", "e", "s", "t", "u", "s", "e", "r">>
Password123 == "password123"
NewPassword456 == "newpassword456"
Shawshank == 278
Godfather == 238
DarkKnight == 155
SeedMovies == <<Shawshank, Godfather, DarkKnight>>

\* testUser.username: `testuser_${Date.now()}`; the clock is the run number.
TestUserName(n) == TestUserPattern \o <<"_", ToString(n)>>

\* Case folding of the characters that occur in the model's usernames.
Fold(c) == CASE c = "T" -> "t" [] c = "U" -> "u" [] c = "A" -> "a" [] OTHER -> c

\* Character comparison under the collation of users.username.
SameChar(a, b) == IF server.ci THEN Fold(a) = Fold(b) ELSE a = b

\* username = name, as the UNIQUE index of users compares.
SameName(a, b) ==
    /\ Len(a) = Len(b)
    /\ \A i \in 1..Len(a) : SameChar(a[i], b[i])

\* username LIKE 'testuser%'
LikeTestUser(name) ==
    /\ Len(name) >= Len(TestUserPattern)
    /\ \A i \in 1..Len(TestUserPattern) : SameChar(name[i], TestUserPattern[i])

(***************************************************************************)
(* The store.                                                              *)
(***************************************************************************)
EmptyServer ==
    [database |-> FALSE, objects |-> {},
     users |-> {}, nextUser |-> 1,
     movies |-> {}, nextMovie |-> 1,
     user_movies |-> EmptyBag,
     user_moods |-> {}, nextMood |-> 1,
     deletion_logs |-> <<>>]

Has(d, o) == o \in d.objects

RECURSIVE Orders(_)
\* The orders in which the rows of a bag can be visited.
Orders(B) ==
    IF B = EmptyBag THEN {<<>>}
    ELSE UNION {{<<x>> \o s : s \in Orders(B (-) SetToBag({x}))} : x \in BagToSet(B)}

\* The rows of user_movies whose key is in `keys`, with their multiplicity.
RowsOf(d, keys) ==
    d.user_movies (-) [k \in BagToSet(d.user_movies) \ keys |-> d.user_movies[k]]

\* Whether deleting rows of user_movies activates after_movie_delete: a
\* DELETE statement on user_movies does; a cascaded foreign key action does
\* not (MySQL and MariaDB: "cascaded foreign key actions do not activate
\* triggers").
TriggerFires(d, cascade) ==
    /\ Has(d, "after_movie_delete")
    /\ ~cascade

\* Rows with key in `keys` leave user_movies; the trigger logs each row it
\* is activated for.  The result is the set of possible stores (the order in
\* which the rows are visited is the server's).
DeleteUserMovies(d, keys, cascade) ==
    LET gone == RowsOf(d, keys)
        d1 == [d EXCEPT !.user_movies = @ (-) gone]
    IN IF TriggerFires(d, cascade)
       THEN {[d1 EXCEPT !.deletion_logs = @ \o s] : s \in Orders(gone)}
       ELSE {d1}

\* Variant of DeleteUsersWhere for a schema whose foreign keys lack ON DELETE
\* CASCADE and are not enforced: only the users go.
DeleteUsersWhereNoCascade(d, ids) ==
    {[d EXCEPT !.users = {u \in @ : u.id \notin ids}]}

\* DELETE FROM users WHERE id IN ids, with ON DELETE CASCADE of user_movies
\* and user_moods.
DeleteUsersWhere(d, ids) ==
    LET d1 == [d EXCEPT !.users = {u \in @ : u.id \notin ids},
                        !.user_moods = {m \in @ : m.user_id \notin ids}]
    IN DeleteUserMovies(d1, {k \in BagToSet(d.user_movies) : k[1] \in ids}, TRUE)

\* DELETE FROM movies WHERE id IN ids, with ON DELETE CASCADE of user_movies.
DeleteMoviesWhere(d, ids) ==
    LET d1 == [d EXCEPT !.movies = {m \in @ : m.id \notin ids}]
    IN DeleteUserMovies(d1, {k \in BagToSet(d.user_movies) : k[2] \in ids}, TRUE)

Failed(d) == [ok |-> FALSE, db |-> d]
Done(d) == [ok |-> TRUE, db |-> d]

\* INSERT INTO users (username, password): username is UNIQUE.
InsertUser(d, name, pw) ==
    IF ~Has(d, "users") \/ \E u \in d.users : SameName(u.username, name)
    THEN Failed(d)
    ELSE Done([d EXCEPT !.users = @ \cup {[id |-> d.nextUser, username |-> name,
                                           password |-> pw]},
                        !.nextUser = @ + 1])

RECURSIVE InsertMovies(_, _)
\* INSERT INTO movies (tmdb_id) VALUES ...: tmdb_id is UNIQUE, id AUTO_INCREMENT.
InsertMovies(d, tmdbs) ==
    IF tmdbs = <<>> THEN Done(d)
    ELSE IF ~Has(d, "movies") \/ \E m \in d.movies : m.tmdb_id = Head(tmdbs)
    THEN Failed(d)
    ELSE InsertMovies([d EXCEPT !.movies = @ \cup {[id |-> d.nextMovie,
                                                    tmdb_id |-> Head(tmdbs)]},
                                !.nextMovie = @ + 1], Tail(tmdbs))

\* Variant of InsertUserMovie for a user_movies table without its primary key.
InsertUserMovieNoKey(d, u, m) ==
    IF \/ ~Has(d, "user_movies")
       \/ ~\E x \in d.users : x.id = u
       \/ ~\E x \in d.movies : x.id = m
    THEN Failed(d)
    ELSE Done([d EXCEPT !.user_movies = @ (+) SetToBag({<<u, m>>})])

\* INSERT INTO user_movies (user_id, movie_id): the primary key and the two
\* foreign keys.
InsertUserMovie(d, u, m) ==
    IF \/ ~Has(d, "user_movies")
       \/ ~\E x \in d.users : x.id = u
       \/ ~\E x \in d.movies : x.id = m
       \/ BagIn(<<u, m>>, d.user_movies)
    THEN Failed(d)
    ELSE Done([d EXCEPT !.user_movies = @ (+) SetToBag({<<u, m>>})])

\* INSERT INTO user_moods (user_id, mood): the foreign key.
InsertUserMood(d, u) ==
    IF ~Has(d, "user_moods") \/ ~\E x \in d.users : x.id = u
    THEN Failed(d)
    ELSE Done([d EXCEPT !.user_moods = @ \cup {[id |-> d.nextMood, user_id |-> u]},
                        !.nextMood = @ + 1])

(***************************************************************************)
(* The statements of setupTestDatabase.                                    *)
(***************************************************************************)
\* CREATE DATABASE IF NOT EXISTS movie_recommendation_app
CreateDatabase(d) == Done([d EXCEPT !.database = TRUE])

\* USE movie_recommendation_app
UseDatabase(d) == IF d.database THEN Done(d) ELSE Failed(d)

\* CREATE TABLE IF NOT EXISTS users
CreateUsers(d) == Done([d EXCEPT !.objects = @ \cup {"users"}])

\* DROP TABLE IF EXISTS user_movies: the rows and the table's trigger go with
\* the table; no DELETE trigger is activated.
DropUserMovies(d) ==
    Done([d EXCEPT !.objects = @ \ {"user_movies", "after_movie_delete"},
                   !.user_movies = EmptyBag])

\* DROP TABLE IF EXISTS movies: refused while user_movies references it.
DropMovies(d) ==
    IF Has(d, "user_movies") THEN Failed(d)
    ELSE Done([d EXCEPT !.objects = @ \ {"movies"}, !.movies = {}, !.nextMovie = 1])

\* CREATE TABLE movies
CreateMovies(d) ==
    IF Has(d, "movies") THEN Failed(d)
    ELSE Done([d EXCEPT !.objects = @ \cup {"movies"}, !.movies = {}, !.nextMovie = 1])

\* CREATE TABLE user_movies, with foreign keys to users and movies
CreateUserMovies(d) ==
    IF Has(d, "user_movies") \/ ~Has(d, "users") \/ ~Has(d, "movies") THEN Failed(d)
    ELSE Done([d EXCEPT !.objects = @ \cup {"user_movies"}, !.user_movies = EmptyBag])

\* CREATE TABLE IF NOT EXISTS user_moods, with a foreign key to users
CreateUserMoods(d) ==
    IF ~Has(d, "users") THEN Failed(d)
    ELSE Done([d EXCEPT !.objects = @ \cup {"user_moods"}])

\* Variant of CreateDeletionLogs that drops and recreates the table, as the
\* script does for movies and user_movies.
RecreateDeletionLogs(d) ==
    Done([d EXCEPT !.objects = @ \cup {"deletion_logs"}, !.deletion_logs = <<>>])

\* CREATE TABLE IF NOT EXISTS deletion_logs
CreateDeletionLogs(d) == Done([d EXCEPT !.objects = @ \cup {"deletion_logs"}])

\* CREATE TRIGGER after_movie_delete AFTER DELETE ON user_movies
CreateTrigger(d) ==
    IF Has(d, "after_movie_delete") \/ ~Has(d, "user_movies") THEN Failed(d)
    ELSE Done([d EXCEPT !.objects = @ \cup {"after_movie_delete"}])

\* DELETE FROM user_movies
DeleteFromUserMovies(d) ==
    IF ~Has(d, "user_movies") THEN {Failed(d)}
    ELSE {Done(x) : x \in DeleteUserMovies(d, BagToSet(d.user_movies), FALSE)}

\* DELETE FROM user_moods
DeleteFromUserMoods(d) ==
    IF ~Has(d, "user_moods") THEN {Failed(d)}
    ELSE {Done([d EXCEPT !.user_moods = {}])}

\* Variant of DeleteTestUsers without the WHERE clause.
DeleteAllUsers(d) ==
    IF ~Has(d, "users") THEN {Failed(d)}
    ELSE {Done(x) : x \in DeleteUsersWhere(d, {u.id : u \in d.users})}

\* DELETE FROM users WHERE username LIKE 'testuser%'
DeleteTestUsers(d) ==
    IF ~Has(d, "users") THEN {Failed(d)}
    ELSE {Done(x) : x \in DeleteUsersWhere(d,
                     {u.id : u \in {v \in d.users : LikeTestUser(v.username)}})}

\* DELETE FROM movies
DeleteFromMovies(d) ==
    IF ~Has(d, "movies") THEN {Failed(d)}
    ELSE {Done(x) : x \in DeleteMoviesWhere(d, {m.id : m \in d.movies})}

\* INSERT INTO movies ... the three test movies
InsertTestMovies(d) == InsertMovies(d, SeedMovies)

(***************************************************************************)
(* setupTestDatabase                                                       *)
(***************************************************************************)
None == "none"

\* Every change of the store is recorded in the history: the rows that left
\* user_movies, and that the store is no longer as provisioning left it.
History(d2) ==
    [hist EXCEPT !.removed = @ (+) (db.user_movies (-) d2.user_movies),
                 !.fresh = @ /\ d2 = db]

Commit(d2) ==
    /\ db' = d2
    /\ hist' = History(d2)

NoConnection == [state |-> None, ends |-> 0]

\* Variant of Finally for a script without the finally block.
FinallySkipped(c) == c

\* finally { if (connection) await connection.end(); }
Finally(c) ==
    IF c.state # None THEN [state |-> "closed", ends |-> c.ends + 1] ELSE c

\* catch (error) { ...; return false; } finally { ... }
SetupFails ==
    /\ ret' = "false"
    /\ conn' = Finally(conn)
    /\ pc' = "setup_returned"

\* One statement sent over the connection: it takes effect and the script
\* goes on, or it is refused or the connection breaks and the script is in
\* its catch block.
Statement(here, next, results) ==
    /\ pc = here
    /\ \/ \E r \in results :
            /\ r.ok
            /\ Commit(r.db)
            /\ pc' = next
            /\ UNCHANGED <<ret, conn>>
       \/ /\ UNCHANGED <<db, hist>>
          /\ SetupFails
    /\ UNCHANGED <<server, run, t, issued, inflight, budget>>

\* An optional value is a sequence of length 0 or 1.
NoLocals ==
    [userId |-> 0, movieToAdd |-> <<>>, userMovies |-> <<>>,
     updatedMovies |-> <<>>, verdict |-> None, outcome |-> None]

\* runTests(): a new invocation of the script.
RunTests ==
    /\ pc = "idle"
    /\ run < MaxRuns
    /\ run' = run + 1
    /\ pc' = "connect"
    /\ conn' = NoConnection
    /\ ret' = "pending"
    /\ t' = NoLocals
    /\ issued' = <<>>
    /\ hist' = [hist EXCEPT !.pre = <<db>>, !.twice = hist.fresh]
    /\ UNCHANGED <<server, db, inflight, budget>>

\* connection = await mysql.createConnection(...)
Connect ==
    /\ pc = "connect"
    /\ \/ /\ conn' = [conn EXCEPT !.state = "open"]
          /\ pc' = "create_database"
          /\ UNCHANGED ret
       \/ SetupFails
    /\ UNCHANGED <<server, db, run, t, issued, inflight, budget, hist>>

StmtCreateDatabase == Statement("create_database", "use", {CreateDatabase(db)})
StmtUse == Statement("use", "create_users", {UseDatabase(db)})
StmtCreateUsers == Statement("create_users", "drop_user_movies", {CreateUsers(db)})
StmtDropUserMovies == Statement("drop_user_movies", "drop_movies", {DropUserMovies(db)})
StmtDropMovies == Statement("drop_movies", "create_movies", {DropMovies(db)})
StmtCreateMovies == Statement("create_movies", "create_user_movies", {CreateMovies(db)})
StmtCreateUserMovies ==
    Statement("create_user_movies", "create_user_moods", {CreateUserMovies(db)})
StmtCreateUserMoods ==
    Statement("create_user_moods", "create_deletion_logs", {CreateUserMoods(db)})
StmtCreateDeletionLogs ==
    Statement("create_deletion_logs", "create_trigger", {CreateDeletionLogs(db)})
StmtCreateTrigger == Statement("create_trigger", "delete_user_movies", {CreateTrigger(db)})
StmtDeleteUserMovies ==
    Statement("delete_user_movies", "delete_user_moods", DeleteFromUserMovies(db))
StmtDeleteUserMoods ==
    Statement("delete_user_moods", "delete_test_users", DeleteFromUserMoods(db))
StmtDeleteTestUsers ==
    Statement("delete_test_users", "delete_movies", DeleteTestUsers(db))
StmtDeleteMovies == Statement("delete_movies", "insert_movies", DeleteFromMovies(db))
StmtInsertMovies == Statement("insert_movies", "select_movies", {InsertTestMovies(db)})

\* const [movies] = await connection.query('SELECT * FROM movies'); return true;
\* and the finally block.
StmtSelectMovies ==
    /\ pc = "select_movies"
    /\ \/ /\ Has(db, "movies")
          /\ ret' = "true"
          /\ conn' = Finally(conn)
          /\ pc' = "setup_returned"
          /\ hist' = [hist EXCEPT !.fresh = TRUE]
       \/ SetupFails /\ UNCHANGED hist
    /\ UNCHANGED <<server, db, run, t, issued, inflight, budget>>

\* Variant of RunTestsBranch that runs testAPI whatever setupTestDatabase
\* returned.
RunTestsAlways ==
    /\ pc = "setup_returned"
    /\ pc' = "create_user"
    /\ hist' = [hist EXCEPT !.pre = <<>>, !.twice = FALSE]
    /\ UNCHANGED <<server, db, conn, run, ret, t, issued, inflight, budget>>

\* const dbSetupSuccess = await setupTestDatabase(); if (dbSetupSuccess) ... else ...
RunTestsBranch ==
    /\ pc = "setup_returned"
    /\ IF ret = "true"
       THEN pc' = "create_user" /\ t' = t
       ELSE pc' = "idle" /\ t' = [t EXCEPT !.outcome = "skipped"]
    /\ hist' = [hist EXCEPT !.pre = <<>>, !.twice = FALSE]
    /\ UNCHANGED <<server, db, conn, run, ret, issued, inflight, budget>>

(***************************************************************************)
(* The API service, from its contract (section 4.2 of the specification).  *)
(* A response is [ok, db, body].                                           *)
(***************************************************************************)
Response(ok, d, body) == [ok |-> ok, db |-> d, body |-> body]

\* POST /users
ApiCreateUser(d, name, pw) ==
    LET r == InsertUser(d, name, pw)
    IN {Response(r.ok, r.db, d.nextUser)}

\* POST /login
ApiLogin(d, name, pw) ==
    {Response(Has(d, "users") /\ \E u \in d.users :
                  SameName(u.username, name) /\ u.password = pw, d, 0)}

\* GET /users
ApiListUsers(d) == {Response(Has(d, "users"), d, 0)}

\* GET /movies: the catalog, in an order of the service's choosing; the body
\* is what the script reads of it, the first movie (none if the list is empty).
ApiListMovies(d) ==
    IF ~Has(d, "movies") THEN {Response(FALSE, d, <<>>)}
    ELSE IF d.movies = {} THEN {Response(TRUE, d, <<>>)}
    ELSE {Response(TRUE, d, <<m>>) : m \in d.movies}

\* The catalog id of the movie with this tmdb_id, a row being created if absent.
ResolveMovie(d, tmdb) ==
    IF \E m \in d.movies : m.tmdb_id = tmdb
    THEN Done(d)
    ELSE InsertMovies(d, <<tmdb>>)

\* POST /user/:userId/movies: the catalog row is resolved, then the
\* association is inserted.  Adding an association that exists is either
\* confirmed without an insert, or the insert is attempted and its refusal
\* by the primary key is the answer.
ApiAddMovie(d, u, tmdb) ==
    LET r == ResolveMovie(d, tmdb)
        ids == {m.id : m \in {x \in r.db.movies : x.tmdb_id = tmdb}}
    IN IF ~r.ok \/ ~Has(d, "users") \/ ~\E x \in d.users : x.id = u
       THEN {Response(FALSE, d, 0)}
       ELSE UNION {
            LET i == InsertUserMovie(r.db, u, m)
            IN {Response(i.ok, IF i.ok THEN i.db ELSE d, m)}
               \cup (IF BagIn(<<u, m>>, r.db.user_movies)
                     THEN {Response(TRUE, r.db, m)} ELSE {}) : m \in ids}

\* GET /user/:userId/movies: the ids of the user's movies, with multiplicity.
ApiListUserMovies(d, u) ==
    IF ~Has(d, "user_movies") THEN {Response(FALSE, d, EmptyBag)}
    ELSE LET mine == {k \in BagToSet(d.user_movies) : k[1] = u}
         IN {Response(TRUE, d, [m \in {k[2] : k \in mine} |-> d.user_movies[<<u, m>>]])}

\* DELETE /user/:userId/movies/:movieId.  Removing an association that does
\* not exist is either a no-op or refused.
ApiRemoveMovie(d, u, m) ==
    IF ~Has(d, "user_movies") THEN {Response(FALSE, d, 0)}
    ELSE IF ~BagIn(<<u, m>>, d.user_movies)
    THEN {Response(TRUE, d, 0), Response(FALSE, d, 0)}
    ELSE {Response(TRUE, x, 0) : x \in DeleteUserMovies(d, {<<u, m>>}, FALSE)}

\* PUT /user/:userId/password
ApiUpdatePassword(d, u, pw) ==
    IF ~Has(d, "users") \/ ~\E x \in d.users : x.id = u
    THEN {Response(FALSE, d, 0)}
    ELSE {Response(TRUE, [d EXCEPT !.users =
              {IF x.id = u THEN [x EXCEPT !.password = pw] ELSE x : x \in @}], 0)}

(***************************************************************************)
(* testAPI                                                                 *)
(***************************************************************************)
MovieId == 1

\* catch (error) { console.error('\nTest failed:', ...) }
TestFails ==
    /\ pc' = "idle"
    /\ t' = [t EXCEPT !.outcome = "failed"]

\* axios.<method>(...) is called: the request leaves.
Issue(here, op, pw) ==
    /\ pc = here
    /\ inflight = {}
    /\ inflight' = inflight \cup {here}
    /\ issued' = Append(issued, [op |-> op, password |-> pw, status |-> "pending"])
    /\ UNCHANGED <<server, db, pc, conn, run, ret, t, budget, hist>>

Answered(status) == [issued EXCEPT ![Len(issued)].status = status]

\* The awaited request is served and answered.  A 2xx answer lets the script
\* go on with its locals updated (locals[r] after answer r); any other answer,
\* or no answer, throws.
Answer(here, next, responses, locals) ==
    /\ pc = here
    /\ here \in inflight
    /\ inflight' = inflight \ {here}
    /\ \/ \E r \in responses :
            /\ Commit(r.db)
            /\ IF r.ok
               THEN pc' = next /\ t' = locals[r] /\ issued' = Answered("ok")
               ELSE TestFails /\ issued' = Answered("error")
       \/ /\ UNCHANGED <<db, hist>>
          /\ TestFails
          /\ issued' = Answered("no answer")
    /\ UNCHANGED <<server, conn, run, ret, budget>>

\* 1. axios.post(`${API_URL}/users`, testUser); userId = createUserResponse.data.userId
IssueCreateUser == Issue("create_user", "POST /users", Password123)
AnswerCreateUser ==
    LET rs == ApiCreateUser(db, TestUserName(run), Password123)
    IN Answer("create_user", "login", rs, [r \in rs |-> [t EXCEPT !.userId = r.body]])

\* 2. axios.post(`${API_URL}/login`, testUser)
IssueLogin == Issue("login", "POST /login", Password123)
AnswerLogin ==
    LET rs == ApiLogin(db, TestUserName(run), Password123)
    IN Answer("login", "get_users", rs, [r \in rs |-> t])

\* 3. axios.get(`${API_URL}/users`)
IssueGetUsers == Issue("get_users", "GET /users", None)
AnswerGetUsers ==
    LET rs == ApiListUsers(db)
    IN Answer("get_users", "get_movies", rs, [r \in rs |-> t])

\* 4. axios.get(`${API_URL}/movies`); movieToAdd = moviesResponse.data[0]
IssueGetMovies == Issue("get_movies", "GET /movies", None)
AnswerGetMovies ==
    LET rs == ApiListMovies(db)
    IN Answer("get_movies", "add_movie", rs,
              [r \in rs |-> [t EXCEPT !.movieToAdd = r.body]])

\* 5. axios.post(`${API_URL}/user/${userId}/movies`, {movieId: movieToAdd.tmdb_id, ...});
\* movieToAdd.tmdb_id throws when the list was empty.
IssueAddMovie ==
    IF pc = "add_movie" /\ t.movieToAdd = <<>>
    THEN /\ TestFails
         /\ UNCHANGED <<server, db, conn, run, ret, issued, inflight, budget, hist>>
    ELSE Issue("add_movie", "POST /user/:userId/movies", None)
AnswerAddMovie ==
    /\ t.movieToAdd # <<>>
    /\ LET rs == ApiAddMovie(db, t.userId, t.movieToAdd[1].tmdb_id)
       IN Answer("add_movie", "get_user_movies", rs, [r \in rs |-> t])

\* 6. axios.get(`${API_URL}/user/${userId}/movies`)
IssueGetUserMovies == Issue("get_user_movies", "GET /user/:userId/movies", None)
AnswerGetUserMovies ==
    LET rs == ApiListUserMovies(db, t.userId)
    IN Answer("get_user_movies", "delete_movie", rs,
              [r \in rs |-> [t EXCEPT !.userMovies = <<r.body>>]])

\* 7. const movieId = 1; axios.delete(`${API_URL}/user/${userId}/movies/${movieId}`)
IssueDeleteMovie == Issue("delete_movie", "DELETE /user/:userId/movies/:movieId", None)
AnswerDeleteMovie ==
    LET rs == ApiRemoveMovie(db, t.userId, MovieId)
    IN Answer("delete_movie", "verify_deleted", rs, [r \in rs |-> t])

\* movieStillExists = updatedMovies.some(movie => movie.id === movieId)
Verdict(updatedMovies) == IF BagIn(MovieId, updatedMovies) THEN "failed" ELSE "passed"

\* axios.get(`${API_URL}/user/${userId}/movies`) and the verdict on the console
IssueVerifyDeleted == Issue("verify_deleted", "GET /user/:userId/movies", None)
AnswerVerifyDeleted ==
    LET rs == ApiListUserMovies(db, t.userId)
    IN Answer("verify_deleted", "update_password", rs,
              [r \in rs |-> [t EXCEPT !.updatedMovies = <<r.body>>,
                                      !.verdict = Verdict(r.body)]])

\* 8. axios.put(`${API_URL}/user/${userId}/password`, {newPassword: 'newpassword456'})
IssueUpdatePassword ==
    Issue("update_password", "PUT /user/:userId/password", NewPassword456)

\* Variant of AnswerUpdatePassword for a script that ends after the update.
AnswerUpdatePasswordLast ==
    LET rs == ApiUpdatePassword(db, t.userId, NewPassword456)
    IN Answer("update_password", "idle", rs,
              [r \in rs |-> [t EXCEPT !.outcome = "completed"]])

AnswerUpdatePassword ==
    LET rs == ApiUpdatePassword(db, t.userId, NewPassword456)
    IN Answer("update_password", "login_updated", rs, [r \in rs |-> t])

\* 9. axios.post(`${API_URL}/login`, {username, password: 'newpassword456'});
\* '=== All tests completed successfully ==='
IssueLoginUpdated == Issue("login_updated", "POST /login", NewPassword456)
AnswerLoginUpdated ==
    LET rs == ApiLogin(db, TestUserName(run), NewPassword456)
    IN Answer("login_updated", "idle", rs,
              [r \in rs |-> [t EXCEPT !.outcome = "completed"]])

(***************************************************************************)
(* Other clients of the store: requests to the API service and statements  *)
(* sent to the database.                                                   *)
(***************************************************************************)
Alice == <<"a", "l", "i", "c", "e">>
TestUserQA == <<"T", "e", "s", "t", "U", "s", "e", "r">>
ClientNames == {Alice, TestUserQA}
Matrix == 603
ClientMovies == {Shawshank, Matrix}

\* An operation of another client that changes the store.
Client(responses) ==
    /\ budget > 0
    /\ budget' = budget - 1
    /\ \E r \in responses : r.ok /\ r.db # db /\ Commit(r.db)
    /\ UNCHANGED <<server, pc, conn, run, ret, t, issued, inflight>>

ClientCreateUser == \E n \in ClientNames : Client(ApiCreateUser(db, n, Password123))
\* Whether user u has the movie with this tmdb_id in the list.
Listed(d, u, tmdb) ==
    \E x \in d.movies : x.tmdb_id = tmdb /\ BagIn(<<u, x.id>>, d.user_movies)

\* A client adds a movie to a user's list, also one that is in the list.
ClientAddMovie ==
    \E u \in db.users, m \in ClientMovies :
        /\ budget > 0
        /\ budget' = budget - 1
        /\ \E r \in ApiAddMovie(db, u.id, m) :
              /\ r.db # db \/ Listed(db, u.id, m)
              /\ db' = r.db
              /\ hist' = [History(r.db) EXCEPT
                             !.readds = @ + (IF Listed(db, u.id, m) THEN 1 ELSE 0)]
        /\ UNCHANGED <<server, pc, conn, run, ret, t, issued, inflight>>
ClientRemoveMovie ==
    \E k \in BagToSet(db.user_movies) : Client(ApiRemoveMovie(db, k[1], k[2]))
ClientUpdatePassword ==
    \E u \in db.users, pw \in {Password123, NewPassword456} :
        Client(ApiUpdatePassword(db, u.id, pw))
ClientDeleteUser ==
    \E u \in db.users : Client({Response(TRUE, x, 0) : x \in DeleteUsersWhere(db, {u.id})})
ClientDeleteMovie ==
    \E m \in db.movies : Client({Response(TRUE, x, 0) : x \in DeleteMoviesWhere(db, {m.id})})
ClientAddMood ==
    \E u \in db.users :
        Client({LET r == InsertUserMood(db, u.id) IN Response(r.ok, r.db, 0)})

(***************************************************************************)
(* Specifications.                                                         *)
(***************************************************************************)
Init ==
    /\ server \in [ci : BOOLEAN]
    /\ db = EmptyServer
    /\ pc = "idle"
    /\ conn = NoConnection
    /\ run = 0
    /\ ret = "pending"
    /\ t = NoLocals
    /\ issued = <<>>
    /\ inflight = {}
    /\ budget = MaxClientOps
    /\ hist = [removed |-> EmptyBag, pre |-> <<>>, fresh |-> FALSE, twice |-> FALSE,
               readds |-> 0]

Setup ==
    \/ Connect
    \/ StmtCreateDatabase \/ StmtUse \/ StmtCreateUsers
    \/ StmtDropUserMovies \/ StmtDropMovies
    \/ StmtCreateMovies \/ StmtCreateUserMovies \/ StmtCreateUserMoods
    \/ StmtCreateDeletionLogs \/ StmtCreateTrigger
    \/ StmtDeleteUserMovies \/ StmtDeleteUserMoods
    \/ StmtDeleteTestUsers \/ StmtDeleteMovies
    \/ StmtInsertMovies \/ StmtSelectMovies

TestAPI ==
    \/ IssueCreateUser \/ AnswerCreateUser
    \/ IssueLogin \/ AnswerLogin
    \/ IssueGetUsers \/ AnswerGetUsers
    \/ IssueGetMovies \/ AnswerGetMovies
    \/ IssueAddMovie \/ AnswerAddMovie
    \/ IssueGetUserMovies \/ AnswerGetUserMovies
    \/ IssueDeleteMovie \/ AnswerDeleteMovie
    \/ IssueVerifyDeleted \/ AnswerVerifyDeleted
    \/ IssueUpdatePassword \/ AnswerUpdatePassword
    \/ IssueLoginUpdated \/ AnswerLoginUpdated

Script == RunTests \/ Setup \/ RunTestsBranch \/ TestAPI

Clients ==
    \/ ClientCreateUser \/ ClientAddMovie \/ ClientRemoveMovie
    \/ ClientUpdatePassword \/ ClientDeleteUser \/ ClientDeleteMovie
    \/ ClientAddMood

\* The script and the other clients of the store, concurrently.
Next == Script \/ Clients

Spec == Init /\ [][Next]_vars

\* The script alone on the store: other clients act only between its runs.
NextAlone == Script \/ (pc = "idle" /\ Clients)

SpecAlone == Init /\ [][NextAlone]_vars

(***************************************************************************)
(* Properties.                                                             *)
(***************************************************************************)
Logs == db.deletion_logs
Logged == {Logs[i] : i \in DOMAIN Logs}
LogCount(p) == Cardinality({i \in DOMAIN Logs : Logs[i] = p})

\* The log rows a step appends, and how many of them carry key p.
NewLogs == SubSeq(Logs', Len(Logs) + 1, Len(Logs'))
Added(p) == Cardinality({i \in DOMAIN NewLogs : NewLogs[i] = p})

\* The number of user_movies rows with key p that a step removes.
Gone(p) ==
    IF CopiesIn(p, db.user_movies) > CopiesIn(p, db.user_movies')
    THEN CopiesIn(p, db.user_movies) - CopiesIn(p, db.user_movies')
    ELSE 0

\* C1: for every pair (U, M), the number of deletion_logs rows (U, M) is the
\* number of user_movies rows (U, M) removed so far, whatever removed them.
EveryDeletionLogged ==
    \A p \in BagToSet(hist.removed) \cup Logged : LogCount(p) = CopiesIn(p, hist.removed)

\* C2: in every step that other clients can observe, the user_movies rows
\* (U, M) that disappear and the deletion_logs rows (U, M) that appear are
\* equally many: no row is seen deleted without its log row, nor a log row
\* with its user_movies row still there.
AtomicDeleteAndLog ==
    [][\A p \in BagToSet(db.user_movies) \cup {NewLogs[i] : i \in DOMAIN NewLogs} :
          Gone(p) = Added(p)]_vars

\* C3: every user_movies row references an existing user and an existing
\* movie, and every user_moods row an existing user, in every reachable state
\* (so also right after a user or a movie was deleted).
ReferentialIntegrity ==
    /\ \A k \in BagToSet(db.user_movies) :
          /\ \E u \in db.users : u.id = k[1]
          /\ \E m \in db.movies : m.id = k[2]
    /\ \A m \in db.user_moods : \E u \in db.users : u.id = m.user_id

\* A user who had a movie in the list has been deleted while user_movies exists.
OwnerDeleted ==
    /\ Has(db, "user_movies")
    /\ \E p \in BagToSet(hist.removed) : ~\E u \in db.users : u.id = p[1]
    /\ Logs = <<>>

\* C4: no step removes or changes a deletion_logs row, and a step appends a
\* row (U, M) only if it removes a user_movies row (U, M).
AppendOnlyLog ==
    [][/\ Len(Logs') >= Len(Logs)
       /\ SubSeq(Logs', 1, Len(Logs)) = Logs
       /\ \A i \in DOMAIN NewLogs : Added(NewLogs[i]) <= Gone(NewLogs[i])]_vars

\* A log row is there after a later provisioning run has succeeded.
LogSurvivedProvisioning ==
    /\ Logs # <<>>
    /\ run >= 2
    /\ pc = "setup_returned"
    /\ ret = "true"

\* The username starts with the characters t, e, s, t, u, s, e, r.
StartsWithTestUser(name) ==
    /\ Len(name) >= Len(TestUserPattern)
    /\ \A i \in 1..Len(TestUserPattern) : name[i] = TestUserPattern[i]

SeedCatalog ==
    /\ {m.tmdb_id : m \in db.movies} = {Shawshank, Godfather, DarkKnight}
    /\ Cardinality(db.movies) = Len(SeedMovies)

Provisioned == pc = "setup_returned" /\ ret = "true"

\* C5 as claimed: when setupTestDatabase returns true there are no user_movies
\* and no user_moods rows, no user whose name starts with 'testuser', the
\* catalog is the three test movies, every user whose name does not start
\* with 'testuser' is as before, and a second provisioning in a row changes
\* nothing.
ProvisioningResult ==
    Provisioned =>
        /\ db.user_movies = EmptyBag
        /\ db.user_moods = {}
        /\ \A u \in db.users : ~StartsWithTestUser(u.username)
        /\ SeedCatalog
        /\ {u \in hist.pre[1].users : ~StartsWithTestUser(u.username)} \subseteq db.users
        /\ db.users \subseteq hist.pre[1].users
        /\ hist.twice => db = hist.pre[1]

\* C5 as amended: the users that are removed, and the only ones, are those
\* whose name matches 'testuser%' as the server compares characters.
ProvisioningResultAsCompared ==
    Provisioned =>
        /\ db.user_movies = EmptyBag
        /\ db.user_moods = {}
        /\ \A u \in db.users : ~StartsWithTestUser(u.username)
        /\ SeedCatalog
        /\ db.users = {u \in hist.pre[1].users : ~LikeTestUser(u.username)}
        /\ hist.twice => db = hist.pre[1]

\* Provisioning has succeeded on a store that held test users, other users
\* and associations.
ProvisionedOverData ==
    /\ Provisioned
    /\ hist.pre[1].user_movies # EmptyBag
    /\ \E u \in hist.pre[1].users : LikeTestUser(u.username)
    /\ \E u \in hist.pre[1].users : ~LikeTestUser(u.username)

ApiSteps ==
    <<"POST /users", "POST /login", "GET /users", "GET /movies",
      "POST /user/:userId/movies", "GET /user/:userId/movies",
      "DELETE /user/:userId/movies/:movieId", "GET /user/:userId/movies",
      "PUT /user/:userId/password", "POST /login">>

ConnectionReleased ==
    /\ ret # "pending" => conn.state # "open"
    /\ issued # <<>> => conn.state = "closed"
    /\ conn.state = "closed" => conn.ends = 1
    /\ conn.state # "closed" => conn.ends = 0

\* setupTestDatabase failed after the connection was established.
FailedAfterConnect ==
    /\ pc = "setup_returned"
    /\ ret = "false"
    /\ conn.state = "closed"
    /\ db.database

UpdateRequest == [op |-> "PUT /user/:userId/password", password |-> NewPassword456,
                  status |-> "ok"]
LoginRequest(pw, status) == [op |-> "POST /login", password |-> pw, status |-> status]

\* C8 as claimed: a completed run ends with the password update, a login
\* with the new password that succeeds and a login with the old password
\* that fails.
OldPasswordRejectedAtEnd ==
    t.outcome = "completed" =>
        LET n == Len(issued)
        IN /\ n >= 3
           /\ issued[n - 2] = UpdateRequest
           /\ issued[n - 1] = LoginRequest(NewPassword456, "ok")
           /\ issued[n] = LoginRequest(Password123, "error")

\* C8 as amended: a completed run ends with the password update and a login
\* with the new password that succeeds; no login with the old password
\* follows the update.
NewPasswordAcceptedAtEnd ==
    t.outcome = "completed" =>
        LET n == Len(issued)
        IN /\ n >= 2
           /\ issued[n - 1] = UpdateRequest
           /\ issued[n] = LoginRequest(NewPassword456, "ok")
           /\ \A i \in DOMAIN issued :
                 (issued[i].op = "POST /login" /\ issued[i].password = Password123)
                    => i < n - 1

RunCompleted == pc = "idle" /\ t.outcome = "completed"

\* C9: user_movies holds at most one row per (user_id, movie_id) and movies
\* at most one row per tmdb_id; once the script has added a movie, the
\* user's list holds it exactly once.
AssociationAtMostOnce ==
    /\ \A k \in BagToSet(db.user_movies) : CopiesIn(k, db.user_movies) = 1
    /\ \A m1, m2 \in db.movies : m1.tmdb_id = m2.tmdb_id => m1 = m2
    /\ pc = "get_user_movies" =>
          CopiesIn(<<t.userId, t.movieToAdd[1].id>>, db.user_movies) = 1
    /\ t.userMovies # <<>> => CopiesIn(t.movieToAdd[1].id, t.userMovies[1]) = 1

\* A movie that was in a user's list has been added to it again.
AddedTwice ==
    /\ hist.readds > 0
    /\ db.user_movies # EmptyBag

\* C10: the movie the script adds is catalog row 1, whatever GET /movies
\* returns first; the DELETE for movie 1 that succeeds finds the association
\* in the list; 'Test passed' is reported only when a movie of the list
\* fetched before the DELETE is missing from the list fetched after it.
DeleteRemovesAddedMovie ==
    /\ t.movieToAdd # <<>> => t.movieToAdd[1].id = MovieId
    /\ t.verdict = "passed" =>
          \E m \in BagToSet(t.userMovies[1]) : ~BagIn(m, t.updatedMovies[1])

====
